---------------------------- MODULE Spec2Model ----------------------------
(***************************************************************************)
(* A model of the mutable hash tree (src/Fleece/Tree/MHashTree.cc) and of  *)
(* the inline-buffer vector (src/Fleece/Support/SmallVector.hh).           *)
(*                                                                         *)
(* The tree is modelled on an explicit heap: every node the code allocates *)
(* with `new` is a cell of `heap`, child slots hold addresses, and the     *)
(* recursive member functions become RECURSIVE operators that thread the   *)
(* heap through their steps in the order the code executes them.           *)
(***************************************************************************)
EXTENDS Integers, Sequences, FiniteSets, TLC

VARIABLES
    heap,       \* address -> node (the cells `new` has handed out and not yet deleted)
    root,       \* MHashTree::_root: an address, or Null
    status,     \* "ok" | "aborted" (an assert failed) | "destroyed" (~MHashTree ran)
    model,      \* ghost: the key -> value map the completed calls describe
    failures,   \* ghost: how many calls have thrown std::bad_alloc
    vecs,       \* the smallVector objects: object -> its data members
    bufs,       \* the malloc'ed element buffers: address -> slots
    ref,        \* ghost: object -> the sequence its calls describe
    vstatus,    \* "ok" | "out_of_bounds" | "bad_free" (undefined behaviour)
    vlast       \* ghost: the last call on a vector and how it ended

treeVars == <<heap, root, status, model, failures>>

vecVars == <<vecs, bufs, ref, vstatus, vlast>>

-----------------------------------------------------------------------------
(* Program constants.                                                      *)

kBitShift == 5
kMaxChildren == 32
HashBits == 64

(* Bounds of the model.                                                    *)
MaxVal == 2         \* the values inserted are 1 .. MaxVal
MaxFailAt == 3      \* a failing allocation is one of the first MaxFailAt of a call
MaxFailures == 1    \* calls that may throw std::bad_alloc in one run
PoolSize == 16      \* addresses in one pool of the allocator
N == 2              \* smallVector<T, N>: the inline capacity of the model's vectors
MaxSize == 5        \* no element is appended to a vector of this size
MaxCap == 5         \* the capacities asked of setCapacity and reserve are 0 .. MaxCap

Null == 0
Uninit == -1        \* the content of a slot that was allocated and never written

Values == 1 .. MaxVal
DefaultVal == 0     \* Val{} for Val = int: what get returns for an absent key

-----------------------------------------------------------------------------
(* hash_t.  A 64-bit hash is held as its base-32 digits, least significant *)
(* first: digit i is (hash >> 5*i) & 31.  Digits 0..11 are full 5-bit      *)
(* slices; digit 12 holds the 4 remaining bits (60..63).                   *)

NumSlices == (HashBits + kBitShift - 1) \div kBitShift

MkHash(d0, d1, d11, d12) ==
    [i \in 0 .. NumSlices - 1 |->
        IF i = 0 THEN d0 ELSE IF i = 1 THEN d1 ELSE IF i = 11 THEN d11
        ELSE IF i = 12 THEN d12 ELSE 0]

(* The keys of the model and their hashes (std::hash<Key> is a parameter   *)
(* of the tree).  ka..ke differ in a usable slice (kd and ke differ from   *)
(* ka only in the last one, bits 55..59); kf differs from ka only in bits  *)
(* 60..63; kg has ka's hash and is a different key.                        *)
Keys == {"ka", "kb", "kc", "kd", "ke", "kf", "kg"}

Hash(k) ==
    CASE k = "ka" -> MkHash(0, 0, 0, 0)
      [] k = "kb" -> MkHash(1, 0, 0, 0)
      [] k = "kc" -> MkHash(0, 1, 0, 0)
      [] k = "kd" -> MkHash(0, 0, 1, 0)
      [] k = "ke" -> MkHash(0, 0, 2, 0)
      [] k = "kf" -> MkHash(0, 0, 0, 1)
      [] k = "kg" -> MkHash(0, 0, 0, 0)

Target(k) == [hash |-> Hash(k), key |-> k]

(* A bug: the key is not compared.                                         *)
matches_hashOnly(leaf, t) == leaf.hash = t.hash

matches(leaf, t) == leaf.hash = t.hash /\ leaf.key = t.key

-----------------------------------------------------------------------------
(* Nodes.                                                                  *)

LeafNode(t, v) == [capacity |-> 0, hash |-> t.hash, key |-> t.key, val |-> v]

isLeaf(n) == n.capacity = 0

(* A bug: the copy does not take the original's bitmap and children.       *)
InteriorNode_noCopy(capacity, orig) ==
    [capacity |-> capacity,
     bitmap   |-> {},
     children |-> [i \in 0 .. capacity - 1 |-> Null]]

(* InteriorNode(capacity, orig): a fresh node (orig = nullptr, here <<>>)   *)
(* has an empty bitmap and zeroed slots; a copy (orig = <<node>>) takes    *)
(* orig's bitmap and orig's capacity slots, and the slots past them are    *)
(* left unwritten.                                                         *)
InteriorNode(capacity, orig) ==
    [capacity |-> capacity,
     bitmap   |-> IF orig = <<>> THEN {} ELSE orig[1].bitmap,
     children |-> [i \in 0 .. capacity - 1 |->
                     IF orig = <<>> THEN Null
                     ELSE IF i < orig[1].capacity THEN orig[1].children[i]
                     ELSE Uninit]]

childCount(n) == Cardinality(n.bitmap)

(* A bug: the hash is not shifted.                                         *)
childBitNumber_noShift(hash, shift) == hash[0]

childBitNumber(hash, shift) == hash[shift \div kBitShift]

childIndexForBitNumber(n, bitNo) == Cardinality({b \in n.bitmap : b < bitNo})

hasChild(n, bitNo) == bitNo \in n.bitmap

-----------------------------------------------------------------------------
(* The heap, and the execution context an operation threads through its    *)
(* steps: the heap, whether the call is still running ("ok"), has failed   *)
(* an assert ("assert") or has thrown std::bad_alloc ("bad_alloc"), and    *)
(* the allocations and frees made so far.  failAt = n > 0 makes the n-th   *)
(* allocation of the call fail.                                            *)

(* Which unused address operator new returns is unspecified.  The model's  *)
(* allocator keeps one pool of addresses per kind of cell -- one per key   *)
(* for the leaves, one per capacity (the size of the allocation) for the   *)
(* interior nodes -- and hands out the lowest unused address of the pool,  *)
(* so that heaps that differ only in how their cells are numbered are one  *)
(* state.                                                                  *)
KeyIndex(k) ==
    CASE k = "ka" -> 1 [] k = "kb" -> 2 [] k = "kc" -> 3 [] k = "kd" -> 4
      [] k = "ke" -> 5 [] k = "kf" -> 6 [] k = "kg" -> 7

Pool(cell) ==
    IF isLeaf(cell) THEN KeyIndex(cell.key) ELSE Cardinality(Keys) + cell.capacity

FreshAddr(h, cell) ==
    LET base == Pool(cell) * PoolSize IN
    CHOOSE a \in base .. base + PoolSize - 1 :
        /\ a \notin DOMAIN h
        /\ \A b \in base .. a - 1 : b \in DOMAIN h

Ctx(h, failAt) ==
    [heap |-> h, st |-> "ok", nalloc |-> 0, allocd |-> {}, freed |-> {},
     failAt |-> failAt]

Store(c, a, cell) ==
    [c EXCEPT !.heap = [x \in DOMAIN c.heap \cup {a} |->
                          IF x = a THEN cell ELSE c.heap[x]]]

(* A bug: a failed assertion does not stop the call.                       *)
Fail_ignored(c, why) == c

(* A failed assertion (or another fault) ends the call: the context keeps  *)
(* the first fault, and no later step of the call changes the heap.        *)
Fail(c, why) == IF c.st = "ok" THEN [c EXCEPT !.st = why] ELSE c

(* operator new: the lowest address not in use.                            *)
New(c, cell) ==
    IF c.st # "ok" THEN [c |-> c, p |-> Null]
    ELSE IF c.nalloc + 1 = c.failAt
    THEN [c |-> [c EXCEPT !.st = "bad_alloc", !.nalloc = @ + 1], p |-> Null]
    ELSE LET a == FreshAddr(c.heap, cell) IN
         [c |-> [Store(c, a, cell) EXCEPT !.nalloc = @ + 1,
                                          !.allocd = @ \cup {a}],
          p |-> a]

(* operator delete.                                                        *)
Delete(c, a) ==
    IF c.st # "ok" THEN c
    ELSE [c EXCEPT !.heap = [x \in DOMAIN c.heap \ {a} |-> c.heap[x]],
                   !.freed = @ \cup {a}]

newNode(c, capacity, orig) == New(c, InteriorNode(capacity, orig))


-----------------------------------------------------------------------------
(* InteriorNode's private helpers.  Each takes the context and the address *)
(* of `this`, and returns the context after it ran and the pointer it      *)
(* returns.                                                                *)

(* A bug: the node that was copied is not deleted.                         *)
grow_leak(c, this) ==
    IF c.st # "ok" THEN [c |-> c, p |-> Null]
    ELSE newNode(c, c.heap[this].capacity + 1, <<c.heap[this]>>)

(* grow(): a copy with one more slot replaces this node, which is deleted. *)
grow(c, this) ==
    IF c.st # "ok" THEN [c |-> c, p |-> Null]
    ELSE IF ~(c.heap[this].capacity < kMaxChildren)
    THEN [c |-> Fail(c, "assert"), p |-> Null]
    ELSE LET r == newNode(c, c.heap[this].capacity + 1, <<c.heap[this]>>) IN
         [c |-> Delete(r.c, this), p |-> r.p]

(* A bug: the child is stored in the first slot, whatever its bit.         *)
addChildAt_front(c, this, bitNo, childIndex, child) ==
    IF c.st # "ok" THEN [c |-> c, p |-> Null]
    ELSE LET n == c.heap[this] IN
         [c |-> Store(c, this,
                  [n EXCEPT !.children =
                               [i \in 0 .. n.capacity - 1 |->
                                  IF i = 0 THEN child ELSE n.children[i - 1]],
                            !.bitmap = @ \cup {bitNo}]),
          p |-> this]

(* _addChild(bitNo, childIndex, child): memmove the slots from childIndex  *)
(* up by one (capacity - childIndex - 1 of them), store the child, set the *)
(* bit.                                                                    *)
addChildAt(c, this, bitNo, childIndex, child) ==
    IF c.st # "ok" THEN [c |-> c, p |-> Null]
    ELSE IF child = Null THEN [c |-> Fail(c, "assert"), p |-> Null]
    ELSE LET n == c.heap[this] IN
         IF childIndex >= n.capacity
         THEN [c |-> Fail(c, "undefined"), p |-> Null]   \* writes past the node
         ELSE [c |-> Store(c, this,
                       [n EXCEPT !.children =
                                    [i \in 0 .. n.capacity - 1 |->
                                       IF i < childIndex THEN n.children[i]
                                       ELSE IF i = childIndex THEN child
                                       ELSE n.children[i - 1]],
                                 !.bitmap = @ \cup {bitNo}]),
               p |-> this]

(* A bug: a full node is not grown before the child is added.              *)
addChild_noGrow(c, this, bitNo, child) ==
    IF c.st # "ok" THEN [c |-> c, p |-> Null]
    ELSE addChildAt(c, this, bitNo,
                    childIndexForBitNumber(c.heap[this], bitNo), child)

(* addChild(bitNo, child) and addChild(bitNo, childIndex, child).          *)
addChild(c, this, bitNo, child) ==
    IF c.st # "ok" THEN [c |-> c, p |-> Null]
    ELSE LET n          == c.heap[this]
             childIndex == childIndexForBitNumber(n, bitNo)
             g          == IF childCount(n) < n.capacity
                           THEN [c |-> c, p |-> this]
                           ELSE grow(c, this)
         IN  addChildAt(g.c, g.p, bitNo, childIndex, child)

(* removeChild(bitNo, childIndex): memmove the slots above childIndex down *)
(* by one; the last slot keeps what it held.  Clear the bit.               *)
removeChild(c, this, bitNo, childIndex) ==
    IF c.st # "ok" THEN c
    ELSE LET n == c.heap[this] IN
         IF ~(childIndex < n.capacity) THEN Fail(c, "assert")
         ELSE Store(c, this,
                [n EXCEPT !.children =
                             [i \in 0 .. n.capacity - 1 |->
                                IF i < childIndex THEN n.children[i]
                                ELSE IF i + 1 < n.capacity THEN n.children[i + 1]
                                ELSE n.children[i]],
                          !.bitmap = @ \ {bitNo}])

(* A bug: the shift alone is compared with the width of the hash.         *)
shiftInRange_any(shift) == shift < HashBits

(* What insert and remove assert: shift + kBitShift < 8*sizeof(hash_t).    *)
shiftInRange(shift) == shift + kBitShift < HashBits

(* A bug: every such node starts with two slots.                           *)
SplitCapacity_flat(shift) == 2

(* The initial capacity of the interior node that replaces a leaf slot of  *)
(* a node at `shift`.                                                      *)
SplitCapacity(shift) ==
    LET level == shift \div kBitShift IN
    2 + (IF level < 1 THEN 1 ELSE 0) + (IF level < 3 THEN 1 ELSE 0)

(* A bug: the value goes into a new leaf that nothing points to.           *)
setVal_fresh(c, leaf, val) == New(c, [c.heap[leaf] EXCEPT !.val = val]).c

(* leaf->_val = val.                                                       *)
setVal(c, leaf, val) == Store(c, leaf, [c.heap[leaf] EXCEPT !.val = val])

-----------------------------------------------------------------------------
(* InteriorNode::insert(target, val, shift).                               *)

RECURSIVE insert(_, _, _, _, _)
insert(c, this, target, val, shift) ==
    IF c.st # "ok" THEN [c |-> c, p |-> Null]
    ELSE IF ~shiftInRange(shift)
    THEN [c |-> Fail(c, "assert"), p |-> Null]
    ELSE
    LET n     == c.heap[this]
        bitNo == childBitNumber(target.hash, shift)
    IN
    IF ~hasChild(n, bitNo)
    THEN \* No child -- add a leaf (the leaf is allocated first, then linked):
         LET l == New(c, LeafNode(target, val)) IN
         addChild(l.c, this, bitNo, l.p)
    ELSE
    LET i        == childIndexForBitNumber(n, bitNo)
        childRef == n.children[i]
    IN
    IF ~(i < n.capacity) THEN [c |-> Fail(c, "assert"), p |-> Null]
    ELSE IF isLeaf(c.heap[childRef])
    THEN LET leaf == c.heap[childRef] IN
         IF matches(leaf, target)
         THEN [c |-> setVal(c, childRef, val), p |-> this]
         ELSE \* a new interior node takes the slot; the old leaf and the
              \* new key go below it
              LET nn == newNode(c, SplitCapacity(shift), <<>>)
                  c1 == IF nn.c.st # "ok" THEN nn.c
                        ELSE Store(nn.c, this,
                                   [n EXCEPT !.children[i] = nn.p])
                  childBitNo == childBitNumber(leaf.hash, shift + kBitShift)
                  c2 == addChild(c1, nn.p, childBitNo, childRef).c
                  c3 == insert(c2, nn.p, target, val, shift + kBitShift).c
              IN  [c |-> c3, p |-> IF c3.st = "ok" THEN this ELSE Null]
    ELSE \* Progress down to interior node...
         LET r  == insert(c, childRef, target, val, shift + kBitShift)
             c1 == IF r.c.st = "ok" /\ r.p # childRef
                   THEN Store(r.c, this,
                              [r.c.heap[this] EXCEPT !.children[i] = r.p])
                   ELSE r.c
         IN  [c |-> c1, p |-> IF c1.st = "ok" THEN this ELSE Null]

(* A bug: a node that has lost its last child is not seen as empty.        *)
empty_never(n) == FALSE

(* _bitmap.empty().                                                        *)
empty(n) == n.bitmap = {}

-----------------------------------------------------------------------------
(* InteriorNode::remove(target, shift).  Returns the context and the bool. *)

RECURSIVE remove(_, _, _, _)
remove(c, this, target, shift) ==
    IF c.st # "ok" THEN [c |-> c, ret |-> FALSE]
    ELSE IF ~shiftInRange(shift)
    THEN [c |-> Fail(c, "assert"), ret |-> FALSE]
    ELSE
    LET n     == c.heap[this]
        bitNo == childBitNumber(target.hash, shift)
    IN
    IF ~hasChild(n, bitNo) THEN [c |-> c, ret |-> FALSE]
    ELSE
    LET childIndex == childIndexForBitNumber(n, bitNo)
        child      == n.children[childIndex]
    IN
    IF isLeaf(c.heap[child])
    THEN IF matches(c.heap[child], target)
         THEN [c |-> Delete(removeChild(c, this, bitNo, childIndex), child),
               ret |-> TRUE]
         ELSE [c |-> c, ret |-> FALSE]
    ELSE LET r == remove(c, child, target, shift + kBitShift) IN
         IF r.c.st # "ok" \/ ~r.ret THEN [c |-> r.c, ret |-> FALSE]
         ELSE IF empty(r.c.heap[child])
         THEN \* child node is now empty, so remove it
              [c |-> Delete(removeChild(r.c, this, bitNo, childIndex), child),
               ret |-> TRUE]
         ELSE [c |-> r.c, ret |-> TRUE]

-----------------------------------------------------------------------------
(* Read-only walks.                                                        *)

(* A bug: the hash is passed down unshifted.                                *)
ShiftHash_none(hash) == hash

(* hash >> kBitShift on the digits of the hash.                            *)
ShiftHash(hash) ==
    [i \in DOMAIN hash |-> IF i + 1 \in DOMAIN hash THEN hash[i + 1] ELSE 0]

(* findNearest(hash): the leaf the hash leads to, or Null.                 *)
RECURSIVE findNearest(_, _, _)
findNearest(h, this, hash) ==
    LET n     == h[this]
        bitNo == childBitNumber(hash, 0)
    IN  IF ~hasChild(n, bitNo) THEN Null
        ELSE LET child == n.children[childIndexForBitNumber(n, bitNo)] IN
             IF isLeaf(h[child]) THEN child
             ELSE findNearest(h, child, ShiftHash(hash))

RECURSIVE itemCountFrom(_, _, _)
itemCountFrom(h, this, i) ==
    IF i >= childCount(h[this]) THEN 0
    ELSE LET child == h[this].children[i] IN
         (IF isLeaf(h[child]) THEN 1 ELSE itemCountFrom(h, child, 0))
         + itemCountFrom(h, this, i + 1)

(* A bug: interior children are counted as one item each.                  *)
itemCount_shallow(h, this) == childCount(h[this])

itemCount(h, this) == itemCountFrom(h, this, 0)

(* freeChildren(): the context after every node below `this` is deleted.   *)
RECURSIVE freeChildrenFrom(_, _, _)
freeChildrenFrom(c, this, i) ==
    IF i >= childCount(c.heap[this]) THEN c
    ELSE LET child == c.heap[this].children[i]
             c1    == IF child = Null THEN c
                      ELSE IF isLeaf(c.heap[child]) THEN Delete(c, child)
                      ELSE Delete(freeChildrenFrom(c, child, 0), child)
         IN  freeChildrenFrom(c1, this, i + 1)

freeChildren(c, this) == freeChildrenFrom(c, this, 0)


-----------------------------------------------------------------------------
(* MHashTree: the public operations.  For each, an operator that computes  *)
(* what the member function does to the heap and what it returns, and the  *)
(* action that applies it.                                                 *)

(* A bug: the root is born as small as a node below it.                    *)
newRoot_small(c) == newNode(c, 4, <<>>)

newRoot(c) == newNode(c, kMaxChildren, <<>>)

(* MHashTree::insert(key, val), with the failAt-th allocation of the call  *)
(* failing (failAt = 0: none fails).  The context after the call, and the  *)
(* value of _root after it.                                                *)
MHashTree_insert(h, rt, k, v, failAt) ==
    LET c0 == Ctx(h, failAt)
        r0 == IF rt = Null THEN newRoot(c0) ELSE [c |-> c0, p |-> rt]
    IN  [c    |-> insert(r0.c, r0.p, Target(k), v, 0).c,
         root |-> IF r0.c.st = "ok" THEN r0.p ELSE rt]

(* A bug: a root that became empty is deleted.                             *)
MHashTree_remove_freesRoot(h, rt, k) ==
    IF rt # Null
    THEN LET r == remove(Ctx(h, 0), rt, Target(k), 0) IN
         IF r.c.st = "ok" /\ r.c.heap[rt].bitmap = {}
         THEN [c |-> Delete(r.c, rt), ret |-> r.ret]
         ELSE r
    ELSE [c |-> Ctx(h, 0), ret |-> FALSE]

(* MHashTree::remove(key): the context after the call and the bool.        *)
MHashTree_remove(h, rt, k) ==
    IF rt # Null THEN remove(Ctx(h, 0), rt, Target(k), 0)
    ELSE [c |-> Ctx(h, 0), ret |-> FALSE]

(* MHashTree::get(key).                                                    *)
MHashTree_get(h, rt, k) ==
    IF rt # Null
    THEN LET leaf == findNearest(h, rt, Hash(k)) IN
         IF leaf # Null /\ matches(h[leaf], Target(k)) THEN h[leaf].val
         ELSE DefaultVal
    ELSE DefaultVal

(* MHashTree::count().                                                     *)
MHashTree_count(h, rt) == IF rt # Null THEN itemCount(h, rt) ELSE 0

(* MHashTree::~MHashTree(): free the children; _root's own deleter then    *)
(* frees the root node.                                                    *)
MHashTree_destroy(h, rt) ==
    IF rt # Null THEN Delete(freeChildren(Ctx(h, 0), rt), rt) ELSE Ctx(h, 0)

StatusAfter(c) ==
    CASE c.st = "assert"    -> "aborted"
      [] c.st = "undefined" -> "undefined"
      [] OTHER              -> "ok"

ModelPut(m, k, v) == [x \in DOMAIN m \cup {k} |-> IF x = k THEN v ELSE m[x]]

ModelDel(m, k) == [x \in DOMAIN m \ {k} |-> m[x]]

ModelGet(m, k) == IF k \in DOMAIN m THEN m[k] ELSE DefaultVal

InsertOp(k, v, failAt) ==
    /\ status = "ok"
    /\ \E r \in {MHashTree_insert(heap, root, k, v, failAt)} :
           /\ heap' = r.c.heap
           /\ root' = r.root
           /\ status' = StatusAfter(r.c)
           /\ model' = IF r.c.st = "ok" THEN ModelPut(model, k, v) ELSE model
           /\ failures' = IF r.c.st = "bad_alloc" THEN failures + 1 ELSE failures

Insert(k, v) == InsertOp(k, v, 0) /\ UNCHANGED vecVars

InsertFails(k, v, failAt) ==
    /\ failures < MaxFailures
    /\ MHashTree_insert(heap, root, k, v, failAt).c.st = "bad_alloc"
    /\ InsertOp(k, v, failAt)
    /\ UNCHANGED vecVars

Remove(k) ==
    /\ status = "ok"
    /\ \E r \in {MHashTree_remove(heap, root, k)} :
           /\ heap' = r.c.heap
           /\ status' = StatusAfter(r.c)
           /\ model' = IF r.c.st = "ok" /\ r.ret THEN ModelDel(model, k) ELSE model
    /\ UNCHANGED <<root, failures>>
    /\ UNCHANGED vecVars

Get(k) ==
    /\ status = "ok"
    /\ MHashTree_get(heap, root, k) \in Values \cup {DefaultVal}
    /\ UNCHANGED <<treeVars, vecVars>>

Count ==
    /\ status = "ok"
    /\ MHashTree_count(heap, root) >= 0
    /\ UNCHANGED <<treeVars, vecVars>>

Destroy ==
    /\ status = "ok"
    /\ heap' = MHashTree_destroy(heap, root).heap
    /\ root' = Null
    /\ status' = "destroyed"
    /\ UNCHANGED <<model, failures>>
    /\ UNCHANGED vecVars

EmptyMap == [x \in {} |-> DefaultVal]

InitTree ==
    /\ heap = EmptyMap
    /\ root = Null
    /\ status = "ok"
    /\ model = EmptyMap
    /\ failures = 0

-----------------------------------------------------------------------------
(* smallVector<T, N> (SmallVector.hh), with T an integer type.             *)
(*                                                                         *)
(* An object is its data members: _size, _capacity, the N inline slots of  *)
(* _small and _big, the address of a buffer in `bufs` or Null.  A slot     *)
(* holds an element or Undef; the slots at and above _size are dead        *)
(* storage (every read goes through get, which asserts i < _size) and are  *)
(* kept Undef.                                                             *)

Undef == -1
DefaultElem == 0                    \* T()
Elems == {1, 2}                     \* the elements the calls push: two values of T
Objs == {1, 2}

(* A size_t above UINT32_MAX.  The sizes of the model are small numbers;   *)
(* this is the one request that is not.                                    *)
TooLarge == 2147483647

ExceedsUint32(cap) == cap >= TooLarge          \* cap > UINT32_MAX

NoObject == [alive |-> FALSE, size |-> 0, capacity |-> 0,
             small |-> [i \in 0 .. N - 1 |-> Undef], big |-> Null]

(* smallVector(): _size {0}, _capacity {N}, _big {nullptr}.                *)
NewVector == [alive |-> TRUE, size |-> 0, capacity |-> N,
              small |-> [i \in 0 .. N - 1 |-> Undef], big |-> Null]

Max(a, b) == IF a >= b THEN a ELSE b

(* One call's state: the object, the buffers, and how the call ended:      *)
(* "ok", an exception ("logic_error", "domain_error", "bad_alloc") or      *)
(* undefined behaviour: "out_of_bounds" (a write outside the storage) or   *)
(* "bad_free" (free of an address that is not allocated).                  *)
VM(v, b, out) == [v |-> v, b |-> b, out |-> out]

(* malloc: the lowest address not in use.                                  *)
FreshBuf(b) == CHOOSE a \in 1 .. Cardinality(DOMAIN b) + 1 : a \notin DOMAIN b

(* free(p).                                                                *)
Free(m, p) ==
    IF m.out # "ok" \/ p = Null THEN m
    ELSE IF p \notin DOMAIN m.b THEN [m EXCEPT !.out = "bad_free"]
    ELSE [m EXCEPT !.b = [x \in DOMAIN m.b \ {p} |-> m.b[x]]]

(* The storage _get indexes: _big if there is one, else _small.            *)
Base(v, b) == IF v.big # Null THEN b[v.big] ELSE v.small

(* The elements get(0) .. get(_size - 1) read, as a sequence.              *)
Contents(v, b) == [i \in 1 .. v.size |-> Base(v, b)[i - 1]]

(* Write x to _get(i).                                                     *)
WriteSlot(m, i, x) ==
    IF m.out # "ok" THEN m
    ELSE IF i \notin DOMAIN Base(m.v, m.b) THEN [m EXCEPT !.out = "out_of_bounds"]
    ELSE IF m.v.big # Null
    THEN [m EXCEPT !.b[m.v.big][i] = x]
    ELSE [m EXCEPT !.v.small[i] = x]

(* A bug: the elements are not copied back into _small.                    *)
setCapacity_noCopyBack(v, b, cap, allocFails) ==
    IF cap = v.capacity THEN VM(v, b, "ok")
    ELSE IF cap < v.size THEN VM(v, b, "logic_error")
    ELSE IF ExceedsUint32(cap) THEN VM(v, b, "domain_error")
    ELSE IF cap <= N
    THEN IF v.big # Null
         THEN Free(VM([v EXCEPT !.big = Null, !.capacity = cap], b, "ok"), v.big)
         ELSE VM([v EXCEPT !.capacity = cap], b, "ok")
    ELSE IF allocFails THEN VM(v, b, "bad_alloc")
    ELSE LET a == IF v.big # Null THEN v.big ELSE FreshBuf(b) IN
         VM([v EXCEPT !.big = a, !.capacity = cap,
                      !.small = [i \in 0 .. N - 1 |-> Undef]],
            [x \in DOMAIN b \cup {a} |->
               IF x = a THEN [i \in 0 .. cap - 1 |->
                                IF i < v.size THEN Base(v, b)[i] ELSE Undef]
               ELSE b[x]],
            "ok")

(* setCapacity(cap).  realloc keeps the address of a buffer it resizes;    *)
(* allocFails: realloc returns null.                                       *)
setCapacity(v, b, cap, allocFails) ==
    IF cap = v.capacity THEN VM(v, b, "ok")
    ELSE IF cap < v.size THEN VM(v, b, "logic_error")
    ELSE IF ExceedsUint32(cap) THEN VM(v, b, "domain_error")
    ELSE IF cap <= N
    THEN IF v.big # Null
         THEN \* Switch to _small:
              Free(VM([v EXCEPT !.small = [i \in 0 .. N - 1 |->
                                             IF i < v.size THEN b[v.big][i]
                                             ELSE v.small[i]],
                                !.big = Null, !.capacity = cap],
                      b, "ok"),
                   v.big)
         ELSE VM([v EXCEPT !.capacity = cap], b, "ok")
    ELSE IF allocFails THEN VM(v, b, "bad_alloc")
    ELSE LET a == IF v.big # Null THEN v.big ELSE FreshBuf(b) IN
         VM([v EXCEPT !.big = a, !.capacity = cap,
                      !.small = [i \in 0 .. N - 1 |-> Undef]],
            [x \in DOMAIN b \cup {a} |->
               IF x = a THEN [i \in 0 .. cap - 1 |->
                                IF i < v.size THEN Base(v, b)[i] ELSE Undef]
               ELSE b[x]],
            "ok")

(* A bug: a full vector grows by one slot only.                            *)
push_back_byOne(v, b, x, allocFails) ==
    LET m == IF v.size >= v.capacity
             THEN setCapacity(v, b, v.size + 1, allocFails)
             ELSE VM(v, b, "ok")
    IN  IF m.out # "ok" THEN m
        ELSE WriteSlot([m EXCEPT !.v.size = @ + 1], m.v.size, x)

(* _grow() and the construction of the new element x in the slot it        *)
(* returns: push_back(t), emplace_back(args).                              *)
push_back(v, b, x, allocFails) ==
    LET m == IF v.size >= v.capacity
             THEN setCapacity(v, b, Max(v.capacity + v.capacity \div 2, v.size + 1),
                              allocFails)
             ELSE VM(v, b, "ok")
    IN  IF m.out # "ok" THEN m
        ELSE WriteSlot([m EXCEPT !.v.size = @ + 1], m.v.size, x)

(* shrinkTo(sz): destroy the elements from sz on.                          *)
shrinkTo(m, sz) ==
    IF m.out # "ok" \/ ~(sz < m.v.size) THEN m
    ELSE IF m.v.big # Null
    THEN [m EXCEPT !.v.size = sz,
                   !.b[m.v.big] = [i \in DOMAIN @ |-> IF i < sz THEN @[i] ELSE Undef]]
    ELSE [m EXCEPT !.v.size = sz,
                   !.v.small = [i \in DOMAIN @ |-> IF i < sz THEN @[i] ELSE Undef]]

(* pop_back(), for _size > 0 (get asserts it).                             *)
pop_back(v, b) == shrinkTo(VM(v, b, "ok"), v.size - 1)

clear(v, b) == shrinkTo(VM(v, b, "ok"), 0)

(* A bug: the tail is moved one slot short.                                *)
erase_shortMove(v, b, first, last) ==
    LET old == Base(v, b)
        sz  == v.size - (last - first)
        new == [i \in DOMAIN old |->
                  IF i < first THEN old[i]
                  ELSE IF i + 1 < sz THEN old[i + (last - first)]
                  ELSE IF i < sz THEN old[i]
                  ELSE Undef]
    IN  IF v.big # Null
        THEN VM([v EXCEPT !.size = sz], [b EXCEPT ![v.big] = new], "ok")
        ELSE VM([v EXCEPT !.size = sz, !.small = new], b, "ok")

(* erase(first, last), for 0 <= first <= last <= _size (asserted): the     *)
(* elements from last on move down to first.                               *)
erase(v, b, first, last) ==
    LET old == Base(v, b)
        sz  == v.size - (last - first)
        new == [i \in DOMAIN old |->
                  IF i < first THEN old[i]
                  ELSE IF i < sz THEN old[i + (last - first)]
                  ELSE Undef]
    IN  IF v.big # Null
        THEN VM([v EXCEPT !.size = sz], [b EXCEPT ![v.big] = new], "ok")
        ELSE VM([v EXCEPT !.size = sz, !.small = new], b, "ok")

(* The loop of resize that constructs T() in the slots i .. sz - 1.        *)
RECURSIVE FillDefault(_, _, _)
FillDefault(m, i, sz) ==
    IF m.out # "ok" \/ i >= sz THEN m
    ELSE FillDefault(WriteSlot(m, i, DefaultElem), i + 1, sz)

(* A bug: _size is set before the capacity is.                             *)
resize_sizeFirst(v, b, sz, allocFails) ==
    IF sz > v.size
    THEN LET cap == IF sz > N THEN Max(v.capacity + v.capacity \div 2, sz) ELSE sz
             m   == IF sz > v.capacity THEN setCapacity(v, b, cap, allocFails)
                    ELSE VM(v, b, "ok")
         IN  IF m.out # "ok" THEN [m EXCEPT !.v.size = sz]
             ELSE FillDefault([m EXCEPT !.v.size = sz], v.size, sz)
    ELSE shrinkTo(VM(v, b, "ok"), sz)

(* resize(sz).                                                             *)
resize(v, b, sz, allocFails) ==
    IF sz > v.size
    THEN LET cap == IF sz > N THEN Max(v.capacity + v.capacity \div 2, sz) ELSE sz
             m   == IF sz > v.capacity THEN setCapacity(v, b, cap, allocFails)
                    ELSE VM(v, b, "ok")
         IN  IF m.out # "ok" THEN m
             ELSE FillDefault([m EXCEPT !.v.size = sz], v.size, sz)
    ELSE shrinkTo(VM(v, b, "ok"), sz)

(* reserve(cap).                                                           *)
reserve(v, b, cap, allocFails) ==
    IF cap > v.capacity THEN setCapacity(v, b, cap, allocFails) ELSE VM(v, b, "ok")

(* A bug: the source keeps its pointer to the buffer it gave away.         *)
moveAssign_shared(d, sv, b) ==
    LET m == Free(VM(d, b, "ok"), d.big) IN
    [d  |-> [d EXCEPT !.size = sv.size, !.capacity = sv.capacity, !.big = sv.big,
                      !.small = [i \in 0 .. N - 1 |->
                                   IF sv.big = Null /\ i < sv.size
                                   THEN sv.small[i] ELSE Undef]],
     sv |-> [sv EXCEPT !.size = 0, !.small = [i \in 0 .. N - 1 |-> Undef]],
     b  |-> m.b,
     out |-> m.out]

(* smallVector(smallVector &&sv): the new object, sv after the move.       *)
moveConstruct(sv, b) ==
    [d  |-> [alive |-> TRUE, size |-> sv.size, capacity |-> sv.capacity,
             big |-> sv.big,
             small |-> [i \in 0 .. N - 1 |->
                          IF sv.big = Null /\ i < sv.size
                          THEN sv.small[i] ELSE Undef]],
     sv |-> [sv EXCEPT !.size = 0, !.big = Null,
                       !.small = [i \in 0 .. N - 1 |-> Undef]],
     b  |-> b,
     out |-> "ok"]

(* operator=(smallVector &&sv), for two different objects: d takes sv's    *)
(* _size and _capacity, frees its own buffer and takes sv's _big.          *)
moveAssign(d, sv, b) ==
    LET m == Free(VM(d, b, "ok"), d.big) IN
    [d  |-> [d EXCEPT !.size = sv.size, !.capacity = sv.capacity, !.big = sv.big,
                      !.small = [i \in 0 .. N - 1 |->
                                   IF sv.big = Null /\ i < sv.size
                                   THEN sv.small[i] ELSE Undef]],
     sv |-> [sv EXCEPT !.size = 0, !.big = Null,
                       !.small = [i \in 0 .. N - 1 |-> Undef]],
     b  |-> m.b,
     out |-> m.out]

(* ~smallVector(): clear(); free(_big).                                    *)
destroy(v, b) == Free(clear(v, b), v.big)

-----------------------------------------------------------------------------
(* The calls on the vector objects, one action each.                       *)

Requests(max) == 0 .. max \cup {TooLarge}

(* The object and the buffers after a call; the ghost sequence follows a   *)
(* call that returned.                                                     *)
Exceptions == {"logic_error", "domain_error", "bad_alloc"}

StatusOf(out) == IF out \in Exceptions THEN "ok" ELSE out

Apply(op, o, m, seq) ==
    /\ vecs' = [vecs EXCEPT ![o] = m.v]
    /\ bufs' = m.b
    /\ ref' = IF m.out = "ok" THEN [ref EXCEPT ![o] = seq] ELSE ref
    /\ vstatus' = StatusOf(m.out)
    /\ vlast' = [op |-> op, out |-> m.out]
    /\ UNCHANGED treeVars

Usable(o) == vstatus = "ok" /\ vecs[o].alive

Construct(o) ==
    /\ vstatus = "ok"
    /\ ~vecs[o].alive
    /\ Apply("construct", o, VM(NewVector, bufs, "ok"), <<>>)

PushBack(o, x, allocFails) ==
    /\ Usable(o)
    /\ vecs[o].size < MaxSize
    /\ Apply("push_back", o, push_back(vecs[o], bufs, x, allocFails), Append(ref[o], x))

(* push_back on a vector of at most N elements, the allocation succeeding. *)
PushWithin(o, x) == vecs[o].size <= N /\ PushBack(o, x, FALSE)

PopBack(o) ==
    /\ Usable(o)
    /\ vecs[o].size > 0
    /\ Apply("pop_back", o, pop_back(vecs[o], bufs), SubSeq(ref[o], 1, Len(ref[o]) - 1))

Erase(o, first, last) ==
    /\ Usable(o)
    /\ first <= last /\ last <= vecs[o].size
    /\ Apply("erase", o, erase(vecs[o], bufs, first, last),
             SubSeq(ref[o], 1, first) \o SubSeq(ref[o], last + 1, Len(ref[o])))

Resize(o, sz, allocFails) ==
    /\ Usable(o)
    /\ Apply("resize", o, resize(vecs[o], bufs, sz, allocFails),
             [i \in 1 .. sz |-> IF i <= Len(ref[o]) THEN ref[o][i] ELSE DefaultElem])

Clear(o) ==
    /\ Usable(o)
    /\ Apply("clear", o, clear(vecs[o], bufs), <<>>)

Reserve(o, cap, allocFails) ==
    /\ Usable(o)
    /\ Apply("reserve", o, reserve(vecs[o], bufs, cap, allocFails), ref[o])

SetCapacity(o, cap, allocFails) ==
    /\ Usable(o)
    /\ Apply("setCapacity", o, setCapacity(vecs[o], bufs, cap, allocFails), ref[o])

MoveConstruct(d, sv) ==
    /\ Usable(sv)
    /\ ~vecs[d].alive
    /\ \E r \in {moveConstruct(vecs[sv], bufs)} :
          /\ vecs' = [vecs EXCEPT ![d] = r.d, ![sv] = r.sv]
          /\ bufs' = r.b
          /\ ref' = [ref EXCEPT ![d] = ref[sv], ![sv] = <<>>]
          /\ vstatus' = StatusOf(r.out)
          /\ vlast' = [op |-> "move_construct", out |-> r.out]
    /\ UNCHANGED treeVars

MoveAssign(d, sv) ==
    /\ Usable(sv) /\ Usable(d)
    /\ d # sv
    /\ \E r \in {moveAssign(vecs[d], vecs[sv], bufs)} :
          /\ vecs' = [vecs EXCEPT ![d] = r.d, ![sv] = r.sv]
          /\ bufs' = r.b
          /\ ref' = [ref EXCEPT ![d] = ref[sv], ![sv] = <<>>]
          /\ vstatus' = StatusOf(r.out)
          /\ vlast' = [op |-> "move_assign", out |-> r.out]
    /\ UNCHANGED treeVars

DestroyVec(o) ==
    /\ Usable(o)
    /\ \E m \in {destroy(vecs[o], bufs)} :
          /\ vecs' = [vecs EXCEPT ![o] = NoObject]
          /\ bufs' = m.b
          /\ ref' = [ref EXCEPT ![o] = <<>>]
          /\ vstatus' = StatusOf(m.out)
          /\ vlast' = [op |-> "destroy", out |-> m.out]
    /\ UNCHANGED treeVars

InitVec ==
    /\ vecs = [o \in Objs |-> NoObject]
    /\ bufs = EmptyMap
    /\ ref = [o \in Objs |-> <<>>]
    /\ vstatus = "ok"
    /\ vlast = [op |-> "none", out |-> "ok"]

-----------------------------------------------------------------------------
vars == <<heap, root, status, model, failures, vecs, bufs, ref, vstatus, vlast>>

Init == InitTree /\ InitVec

(* The tree.                                                               *)
Next ==
    \/ \E k \in Keys, v \in Values : Insert(k, v)
    \/ \E k \in Keys : Remove(k)
    \/ \E k \in Keys : Get(k)
    \/ Count
    \/ Destroy

Spec == Init /\ [][Next]_vars

(* The tree where allocations may fail.                                    *)
NextOOM ==
    \/ Next
    \/ \E k \in Keys, v \in Values, f \in 1 .. MaxFailAt : InsertFails(k, v, f)

SpecOOM == Init /\ [][NextOOM]_vars

(* One vector and the calls that change its elements or its capacity.      *)
NextVec ==
    \/ Construct(1)
    \/ \E x \in Elems, f \in BOOLEAN : PushBack(1, x, f)
    \/ PopBack(1)
    \/ \E first \in 0 .. MaxSize, last \in 0 .. MaxSize : Erase(1, first, last)
    \/ \E sz \in Requests(MaxSize), f \in BOOLEAN : Resize(1, sz, f)
    \/ Clear(1)
    \/ \E cap \in Requests(MaxCap), f \in BOOLEAN : Reserve(1, cap, f)
    \/ \E cap \in Requests(MaxCap), f \in BOOLEAN : SetCapacity(1, cap, f)

SpecVec == Init /\ [][NextVec]_vars

(* Two vectors that are pushed to (up to one element past the inline       *)
(* capacity), shrunk, moved and destroyed.                                 *)
NextMove ==
    \/ \E o \in Objs : Construct(o)
    \/ \E o \in Objs, x \in Elems : PushWithin(o, x)
    \/ \E o \in Objs : PopBack(o)
    \/ \E o \in Objs, cap \in 0 .. MaxCap : SetCapacity(o, cap, FALSE)
    \/ \E d \in Objs, sv \in Objs : MoveConstruct(d, sv)
    \/ \E d \in Objs, sv \in Objs : MoveAssign(d, sv)
    \/ \E o \in Objs : DestroyVec(o)

SpecMove == Init /\ [][NextMove]_vars

-----------------------------------------------------------------------------
(* What is stored in a heap.                                               *)

LeafCells(h) == {a \in DOMAIN h : isLeaf(h[a])}

InteriorCells(h) == {a \in DOMAIN h : ~isLeaf(h[a])}

KeysIn(h) == {h[a].key : a \in LeafCells(h)}

(* The depth of the leaf of key k: the number of interior nodes on the     *)
(* path to it, the root included (0: no such leaf).                        *)
RECURSIVE DepthFrom(_, _, _)
DepthFrom(h, this, hash) ==
    LET n     == h[this]
        bitNo == childBitNumber(hash, 0)
    IN  IF ~hasChild(n, bitNo) THEN 1
        ELSE LET child == n.children[childIndexForBitNumber(n, bitNo)] IN
             IF isLeaf(h[child]) THEN 1
             ELSE 1 + DepthFrom(h, child, ShiftHash(hash))

LeafDepth(k) ==
    IF root # Null /\ k \in KeysIn(heap) THEN DepthFrom(heap, root, Hash(k)) ELSE 0

-----------------------------------------------------------------------------
C2_CountIsCardinality ==
    status = "ok" =>
        /\ MHashTree_count(heap, root) = Cardinality(DOMAIN model)
        /\ root = Null => MHashTree_count(heap, root) = 0

(* Four keys are counted, two of them eleven interior nodes below the      *)
(* root, after a key was removed.                                          *)
C2_Witness ==
    /\ status = "ok"
    /\ MHashTree_count(heap, root) = 4
    /\ {"kd", "ke"} \subseteq DOMAIN model
    /\ "ka" \notin DOMAIN model
    /\ LeafDepth("kd") = 12

(* C3: remove(k) returns true exactly when k is stored; it then deletes    *)
(* the leaf of k and no other leaf, and a second remove(k) returns false;  *)
(* when k is not stored it returns false and changes no cell of the heap.  *)
C3_RemoveResult ==
    status = "ok" =>
        \A k \in Keys :
            LET r == MHashTree_remove(heap, root, k) IN
            /\ r.c.st = "ok"
            /\ r.ret = (k \in KeysIn(heap))
            /\ ~r.ret => r.c.heap = heap
            /\ r.ret =>
                 /\ KeysIn(r.c.heap) = KeysIn(heap) \ {k}
                 /\ \A a \in LeafCells(r.c.heap) :
                        a \in LeafCells(heap) /\ r.c.heap[a] = heap[a]
                 /\ Cardinality(LeafCells(r.c.heap))
                        = Cardinality(LeafCells(heap)) - 1
                 /\ ~MHashTree_remove(r.c.heap, root, k).ret

(* Every key has been removed again: the tree has a root and no leaf.      *)
C3_Witness ==
    /\ status = "ok"
    /\ root # Null
    /\ model = EmptyMap
    /\ LeafCells(heap) = {}
    /\ ~MHashTree_remove(heap, root, "ka").ret

(* C4: an insert that throws std::bad_alloc leaves the trie as it was.     *)
C4_FailedInsertChangesNothing ==
    [][\A k \in Keys, v \in Values, f \in 1 .. MaxFailAt :
          InsertFails(k, v, f) => heap' = heap /\ root' = root]_vars

(* C5: without a root, count() is 0, get is absent and remove is false,    *)
(* and none of them makes a root; the root appears in an insert and has    *)
(* capacity 32.                                                            *)
C5_NoRoot ==
    (status = "ok" /\ root = Null) =>
        /\ MHashTree_count(heap, root) = 0
        /\ \A k \in Keys :
              /\ MHashTree_get(heap, root, k) = DefaultVal
              /\ ~MHashTree_remove(heap, root, k).ret
              /\ MHashTree_remove(heap, root, k).c.heap = heap

C5_RootMadeByInsert ==
    /\ (\E k \in Keys : Remove(k) \/ Get(k)) \/ Count => root' = root
    /\ (root = Null /\ root' # Null) =>
          /\ \E k \in Keys, v \in Values : Insert(k, v)
          /\ heap'[root'].capacity = kMaxChildren
          /\ heap = EmptyMap

C5_LazyRoot == [](C5_NoRoot) /\ [][C5_RootMadeByInsert]_vars

(* The first insert has run: a root of capacity 32 with one leaf.          *)
C5_Witness ==
    /\ status = "ok"
    /\ root # Null
    /\ heap[root].capacity = 32
    /\ Cardinality(DOMAIN heap) = 2
    /\ Cardinality(DOMAIN model) = 1

(* C6: once there is a root, every insert and remove keeps it: the same    *)
(* node, still allocated, with capacity 32; with every key removed it has  *)
(* an empty bitmap and count() is 0.                                       *)
C6_RootKept ==
    (root # Null /\ status' = "ok") =>
        /\ root' = root
        /\ root' \in DOMAIN heap'
        /\ heap'[root'].capacity = kMaxChildren

C6_EmptiedRoot ==
    (status = "ok" /\ root # Null /\ model = EmptyMap) =>
        /\ root \in DOMAIN heap
        /\ heap[root].bitmap = {}
        /\ heap[root].capacity = kMaxChildren
        /\ MHashTree_count(heap, root) = 0

C6_RootStays == [](C6_EmptiedRoot) /\ [][C6_RootKept]_vars

(* The keys that had made eleven interior nodes below the root were all    *)
(* removed: the root is the only cell left.                                *)
C6_Witness ==
    /\ status = "ok"
    /\ root # Null
    /\ model = EmptyMap
    /\ DOMAIN heap = {root}
    /\ heap[root].bitmap = {}

-----------------------------------------------------------------------------
(* C7: smallVector refines a sequence.  After any calls of push_back,      *)
(* pop_back, erase, resize and clear (and of reserve and setCapacity, which *)
(* change the storage only), no call has had undefined behaviour, size()   *)
(* is the length of the reference sequence, and get(0) .. get(size - 1)    *)
(* read its elements in order, in inline storage and in heap storage.      *)
C7_RefinesSequence ==
    /\ vstatus = "ok"
    /\ vecs[1].alive =>
          /\ vecs[1].size = Len(ref[1])
          /\ Contents(vecs[1], bufs) = ref[1]

(* An erase in the middle of a heap buffer that was reallocated once: the  *)
(* vector holds a pushed element, a default element of resize, and the     *)
(* element that followed the erased one.                                   *)
C7_Witness ==
    /\ vlast = [op |-> "erase", out |-> "ok"]
    /\ vecs[1].big # Null
    /\ vecs[1].capacity > N + 1
    /\ ref[1] = <<2, DefaultElem, 1>>
    /\ Contents(vecs[1], bufs) = ref[1]

(* C8: the storage mode.  A push onto an inline vector of capacity N with  *)
(* fewer than N elements leaves it inline with capacity N; the push onto   *)
(* an inline vector of N elements moves it to a heap buffer of capacity at *)
(* least N + 1; pop_back, erase, clear and a resize that does not grow     *)
(* keep the heap buffer and the capacity; setCapacity(c) with              *)
(* size <= c <= N on a heap-backed vector frees the buffer and leaves the  *)
(* same elements inline with capacity c.                                   *)
C8_PushStaysInline ==
    (/\ vlast'.op = "push_back"
     /\ vecs[1].big = Null /\ vecs[1].capacity = N /\ vecs[1].size < N)
    => /\ vlast'.out = "ok"
       /\ vecs'[1].size = vecs[1].size + 1
       /\ vecs'[1].big = Null
       /\ vecs'[1].capacity = N
       /\ bufs' = bufs

C8_PushSpills ==
    (/\ vlast'.op = "push_back"
     /\ vecs[1].big = Null /\ vecs[1].size = N /\ vecs'[1].size = N + 1)
    => /\ vlast'.out = "ok"
       /\ vecs'[1].big \in DOMAIN bufs'
       /\ vecs'[1].capacity >= N + 1
       /\ DOMAIN bufs'[vecs'[1].big] = 0 .. vecs'[1].capacity - 1

C8_ShrinkKeepsBuffer ==
    (\/ vlast'.op \in {"pop_back", "erase", "clear"}
     \/ vlast'.op = "resize" /\ vlast'.out = "ok"
                             /\ vecs'[1].size <= vecs[1].size)
    => /\ vlast'.out = "ok"
       /\ vecs'[1].big = vecs[1].big
       /\ vecs'[1].capacity = vecs[1].capacity
       /\ DOMAIN bufs' = DOMAIN bufs

C8_BackInline ==
    (vlast'.op = "setCapacity" /\ vecs[1].big # Null) =>
        \A c \in vecs[1].size .. N, f \in BOOLEAN :
            SetCapacity(1, c, f)
            => /\ vlast'.out = "ok"
               /\ vecs'[1].big = Null
               /\ vecs[1].big \notin DOMAIN bufs'
               /\ vecs'[1].capacity = c
               /\ vecs'[1].size = vecs[1].size
               /\ Contents(vecs'[1], bufs') = Contents(vecs[1], bufs)

C8_StorageMode ==
    [][/\ C8_PushStaysInline
       /\ C8_PushSpills
       /\ C8_ShrinkKeepsBuffer
       /\ C8_BackInline]_vars

(* setCapacity(N) has brought N elements back from the heap: they are      *)
(* inline, in the order they were pushed in, and no buffer is allocated.   *)
C8_Witness ==
    /\ vlast = [op |-> "setCapacity", out |-> "ok"]
    /\ vecs[1].big = Null
    /\ vecs[1].capacity = N
    /\ vecs[1].size = N
    /\ bufs = EmptyMap
    /\ ref[1] = [i \in 1 .. N |-> IF i = 1 THEN 2 ELSE 1]
    /\ Contents(vecs[1], bufs) = ref[1]

(* C9: a capacity request that fails throws and changes nothing.           *)
(* setCapacity(cap) with cap < size throws logic_error; setCapacity,       *)
(* reserve and resize with a request of 2^32 or more throw domain_error; a *)
(* call whose realloc returns null throws bad_alloc; and after each of the *)
(* three the object (size, capacity, inline storage, heap pointer) and the *)
(* heap buffers are what they were before the call.                        *)
C9_NothingChanged ==
    vlast'.out \in Exceptions => vecs' = vecs /\ bufs' = bufs

C9_LogicError ==
    vlast'.op = "setCapacity" =>
        \A cap \in 0 .. vecs[1].size - 1, f \in BOOLEAN :
            SetCapacity(1, cap, f) => vlast'.out = "logic_error"

C9_DomainError ==
    vlast'.op \in {"setCapacity", "reserve", "resize"} =>
        \A f \in BOOLEAN :
            (\/ SetCapacity(1, TooLarge, f)
             \/ Reserve(1, TooLarge, f)
             \/ Resize(1, TooLarge, f))
            => vlast'.out = "domain_error"

(* The calls that reach realloc are those that, when realloc succeeds,     *)
(* leave the vector with a heap buffer of another capacity.                *)
C9_Reallocates(m) ==
    m.out = "ok" /\ m.v.big # Null /\ m.v.capacity # vecs[1].capacity

C9_BadAlloc ==
    /\ vlast'.op = "setCapacity" =>
          \A cap \in Requests(MaxCap) :
              SetCapacity(1, cap, TRUE) =>
                  (vlast'.out = "bad_alloc"
                      <=> C9_Reallocates(setCapacity(vecs[1], bufs, cap, FALSE)))
    /\ vlast'.op = "reserve" =>
          \A cap \in Requests(MaxCap) :
              Reserve(1, cap, TRUE) =>
                  (vlast'.out = "bad_alloc"
                      <=> C9_Reallocates(reserve(vecs[1], bufs, cap, FALSE)))
    /\ vlast'.op = "resize" =>
          \A sz \in Requests(MaxSize) :
              Resize(1, sz, TRUE) =>
                  (vlast'.out = "bad_alloc"
                      <=> C9_Reallocates(resize(vecs[1], bufs, sz, FALSE)))
    /\ vlast'.op = "push_back" =>
          \A x \in Elems :
              PushBack(1, x, TRUE) =>
                  (vlast'.out = "bad_alloc"
                      <=> C9_Reallocates(push_back(vecs[1], bufs, x, FALSE)))

C9_FailedRequest ==
    [][/\ C9_NothingChanged
       /\ C9_LogicError
       /\ C9_DomainError
       /\ C9_BadAlloc]_vars

(* A resize of a heap-backed vector of N + 1 elements has thrown bad_alloc *)
(* from realloc: the vector still reads its elements from the old buffer.  *)
C9_Witness ==
    /\ vlast = [op |-> "resize", out |-> "bad_alloc"]
    /\ vecs[1].big \in DOMAIN bufs
    /\ vecs[1].size = N + 1
    /\ vecs[1].capacity = N + 1
    /\ Contents(vecs[1], bufs) = ref[1]

(* C10: a move transfers the contents.  After the move constructor or the  *)
(* move assignment the destination has the size and the elements, in       *)
(* order, that the source had (through the source's heap buffer if it had  *)
(* one, through its own inline storage otherwise) and the source has size  *)
(* 0 and no heap buffer; the destination's former buffer is freed; and in  *)
(* every state each allocated buffer belongs to exactly one live vector    *)
(* and no call frees an address that is not allocated.                     *)
C10_Transfers ==
    vlast'.op \in {"move_construct", "move_assign"} =>
        \A d \in Objs, sv \in Objs :
            (MoveConstruct(d, sv) \/ MoveAssign(d, sv))
            => /\ vlast'.out = "ok"
               /\ vecs'[d].alive
               /\ vecs'[d].size = vecs[sv].size
               /\ Contents(vecs'[d], bufs') = Contents(vecs[sv], bufs)
               /\ vecs'[sv].size = 0
               /\ vecs'[sv].big = Null
               /\ vecs'[d].big = vecs[sv].big
               /\ DOMAIN bufs' = DOMAIN bufs \ {vecs[d].big}

C10_Owned ==
    /\ vstatus # "bad_free"
    /\ \A a \in DOMAIN bufs :
          Cardinality({o \in Objs : vecs[o].alive /\ vecs[o].big = a}) = 1
    /\ \A o \in Objs :
          vecs[o].big # Null => vecs[o].alive /\ vecs[o].big \in DOMAIN bufs

C10_MoveTransfers == [](C10_Owned) /\ [][C10_Transfers]_vars

(* A heap-backed vector of N + 1 elements was move-assigned to a live      *)
(* vector: the destination reads the elements from the one buffer there    *)
(* is, and the source is empty.                                            *)
C10_Witness ==
    /\ vlast = [op |-> "move_assign", out |-> "ok"]
    /\ vecs[1].alive /\ vecs[1].size = 0 /\ vecs[1].big = Null
    /\ vecs[2].big \in DOMAIN bufs
    /\ Cardinality(DOMAIN bufs) = 1
    /\ ref[2] = [i \in 1 .. N + 1 |-> IF i = 1 THEN 2 ELSE 1]
    /\ Contents(vecs[2], bufs) = ref[2]

-----------------------------------------------------------------------------
(* The leaf that holds key k.                                              *)
LeafOf(h, k) == CHOOSE a \in LeafCells(h) : h[a].key = k

(* C11: insert(k, v) of a stored key overwrites in place.  In every state, *)
(* for every stored key k and every value v, the call completes, allocates *)
(* and frees nothing, leaves _root, count() and every cell but the leaf of *)
(* k as they were (so no bitmap, child slot or capacity changes), and the  *)
(* leaf of k differs in its value only, which is v.                        *)
C11_OverwriteInPlace ==
    status = "ok" =>
        \A k \in KeysIn(heap), v \in Values :
            LET r == MHashTree_insert(heap, root, k, v, 0) IN
            /\ r.c.st = "ok"
            /\ r.c.allocd = {} /\ r.c.freed = {}
            /\ r.root = root
            /\ DOMAIN r.c.heap = DOMAIN heap
            /\ \A a \in DOMAIN heap \ {LeafOf(heap, k)} : r.c.heap[a] = heap[a]
            /\ r.c.heap[LeafOf(heap, k)] = [heap[LeafOf(heap, k)] EXCEPT !.val = v]
            /\ MHashTree_count(r.c.heap, r.root) = MHashTree_count(heap, root)

(* kd is stored with value 1 eleven interior nodes below the root, next to *)
(* another key, and insert(kd, MaxVal) gives its leaf the new value.       *)
C11_Witness ==
    /\ status = "ok"
    /\ LeafDepth("kd") = 12
    /\ "ke" \in KeysIn(heap)
    /\ heap[LeafOf(heap, "kd")].val = 1
    /\ MHashTree_get(MHashTree_insert(heap, root, "kd", MaxVal, 0).c.heap,
                     root, "kd") = MaxVal

-----------------------------------------------------------------------------
(* Key j is stored in a leaf that is a direct child of the root, and k is  *)
(* another key whose hash has the same first slice.                        *)
CollidesAtRoot(j, k) ==
    /\ status = "ok" /\ root # Null
    /\ j \in KeysIn(heap) /\ LeafDepth(j) = 1
    /\ findNearest(heap, root, Hash(j)) = LeafOf(heap, j)
    /\ k # j
    /\ childBitNumber(Hash(k), 0) = childBitNumber(Hash(j), 0)

(* The slices of a hash that insert and remove descend by: slice i is read *)
(* at shift 5 * i, which must pass the assertion shift + 5 < 64.           *)
UsableSlices == {i \in 0 .. NumSlices - 1 : shiftInRange(i * kBitShift)}

(* The child of the root in the slot of hash, in heap h.                   *)
RootSlot(h, hash) ==
    h[root].children[childIndexForBitNumber(h[root], childBitNumber(hash, 0))]

(* The leaves of j and of k are direct children of the node at address a.  *)
DirectChildren(h, a, j, k) ==
    /\ ~isLeaf(h[a])
    /\ childCount(h[a]) = 2
    /\ {h[h[a].children[i]].key : i \in 0 .. 1} = {j, k}

(* C12 as stated: after insert(k, v), the root slot holds an interior node *)
(* whose direct children are the leaf of j and the new leaf of k.          *)
C12_BothDirectChildren ==
    \A j \in Keys, k \in Keys, v \in Values :
        CollidesAtRoot(j, k) =>
            LET r == MHashTree_insert(heap, root, k, v, 0) IN
            /\ r.c.st = "ok"
            /\ DirectChildren(r.c.heap, RootSlot(r.c.heap, Hash(k)), j, k)

(* C12, amended: insert(k, v) completes when the hashes of j and k differ  *)
(* in a slice the descent reads, and it then puts into the root slot a     *)
(* new interior node (of capacity 4) below which both leaves are found:    *)
(* the leaf of j, the same cell as before, and a new leaf of k with value  *)
(* v.  The two are its direct children exactly when the hashes of j and k  *)
(* differ in the second slice; otherwise they lie deeper.                  *)
C12_SplitAtRoot ==
    \A j \in Keys, k \in Keys, v \in Values :
        CollidesAtRoot(j, k) =>
            LET r    == MHashTree_insert(heap, root, k, v, 0)
                h    == r.c.heap
                node == RootSlot(h, Hash(k))
            IN  /\ r.c.st = "ok"
                      <=> \E i \in UsableSlices : Hash(j)[i] # Hash(k)[i]
                /\ r.c.st = "ok" =>
                      /\ r.root = root
                      /\ node \in r.c.allocd
                      /\ ~isLeaf(h[node])
                      /\ h[node].capacity = 4
                      /\ findNearest(h, node, ShiftHash(Hash(j))) = LeafOf(heap, j)
                      /\ h[LeafOf(heap, j)] = heap[LeafOf(heap, j)]
                      /\ findNearest(h, node, ShiftHash(Hash(k))) \in r.c.allocd
                      /\ h[findNearest(h, node, ShiftHash(Hash(k)))]
                            = LeafNode(Target(k), v)
                      /\ DirectChildren(h, node, j, k)
                            <=> childBitNumber(Hash(j), kBitShift)
                                  # childBitNumber(Hash(k), kBitShift)

(* ka is a leaf under the root next to kb; kc, which shares ka's first     *)
(* slice and not its second, and kd, which shares both, are not stored:    *)
(* insert(kc) makes the two leaves direct children of the new node, and    *)
(* insert(kd) puts them eleven nodes deeper.                               *)
C12_Witness ==
    /\ CollidesAtRoot("ka", "kc") /\ CollidesAtRoot("ka", "kd")
    /\ KeysIn(heap) = {"ka", "kb"}
    /\ LET h == MHashTree_insert(heap, root, "kc", 1, 0).c.heap IN
          DirectChildren(h, RootSlot(h, Hash("kc")), "ka", "kc")
    /\ LET r == MHashTree_insert(heap, root, "kd", 1, 0) IN
          r.c.st = "ok" /\ DepthFrom(r.c.heap, root, Hash("kd")) = 12

-----------------------------------------------------------------------------
(* The interior node in which the descent by hash ends at an empty slot    *)
(* (the node that insert adds a leaf to), or Null if it ends at a leaf.    *)
RECURSIVE Landing(_, _, _)
Landing(h, this, hash) ==
    LET n     == h[this]
        bitNo == childBitNumber(hash, 0)
    IN  IF ~hasChild(n, bitNo) THEN this
        ELSE LET child == n.children[childIndexForBitNumber(n, bitNo)] IN
             IF isLeaf(h[child]) THEN Null
             ELSE Landing(h, child, ShiftHash(hash))

(* The node that insert(k, ..) replaces by a grown copy: the node the leaf *)
(* of k is added to, if all its slots are taken.                           *)
Replaced(h, rt, k) ==
    IF rt = Null THEN {}
    ELSE {a \in {Landing(h, rt, Hash(k))} :
              a # Null /\ childCount(h[a]) = h[a].capacity}

C13_NoAllocOutsideInsert ==
    status = "ok" =>
        /\ \A k \in Keys : MHashTree_remove(heap, root, k).c.allocd = {}
        /\ MHashTree_destroy(heap, root).allocd = {}

C13_ReadsKeepHeap ==
    (\E k \in Keys : Get(k)) \/ Count => heap' = heap /\ root' = root

C13_InsertFreesNothing ==
    status = "ok" =>
        \A k \in Keys, v \in Values :
            MHashTree_insert(heap, root, k, v, 0).c.freed = {}

(* C13 as stated: only insert allocates, insert frees nothing, and get and *)
(* count neither allocate nor free.                                        *)
C13_FreesOnlyInRemove ==
    /\ [](C13_NoAllocOutsideInsert /\ C13_InsertFreesNothing)
    /\ [][C13_ReadsKeepHeap]_vars

C13_InsertFreesReplaced ==
    status = "ok" =>
        \A k \in Keys, v \in Values :
            LET r == MHashTree_insert(heap, root, k, v, 0) IN
            r.c.st = "ok" =>
                /\ r.c.freed = Replaced(heap, root, k)
                /\ \A a \in r.c.freed :
                      \E b \in r.c.allocd :
                          /\ r.c.heap[b].capacity = heap[a].capacity + 1
                          /\ heap[a].bitmap \subseteq r.c.heap[b].bitmap

(* C13, amended: remove and the destructor allocate nothing; get and count *)
(* leave the heap as it is; an insert frees nothing but the interior node  *)
(* it replaces by a grown copy, which is the node the new leaf goes to     *)
(* when all the slots of that node are taken.                              *)
C13_AllocationDiscipline ==
    /\ [](C13_NoAllocOutsideInsert /\ C13_InsertFreesReplaced)
    /\ [][C13_ReadsKeepHeap]_vars

(* ka and kd fill the two-slot node eleven levels below the root: an       *)
(* insert of ke frees that node and allocates its copy and the new leaf.   *)
C13_Witness ==
    /\ status = "ok"
    /\ {"ka", "kd"} \subseteq KeysIn(heap)
    /\ Replaced(heap, root, "ke") # {}
    /\ LET r == MHashTree_insert(heap, root, "ke", 1, 0) IN
          /\ r.c.st = "ok"
          /\ r.c.freed = Replaced(heap, root, "ke")
          /\ Cardinality(r.c.allocd) = 2

-----------------------------------------------------------------------------
(* The slots of a node, of its `capacity`, that hold a non-null pointer.   *)
NonNullSlots(n) == {i \in 0 .. n.capacity - 1 : n.children[i] # Null}

(* C14: in every trie reached by inserts and removes, every interior node  *)
(* has as many non-null child slots as bits in its bitmap, at most         *)
(* `capacity` of them, and a capacity of at most 32.                       *)
C14_PopcountIsNonNullSlots ==
    status = "ok" =>
        \A a \in InteriorCells(heap) :
            /\ childCount(heap[a]) = Cardinality(NonNullSlots(heap[a]))
            /\ childCount(heap[a]) <= heap[a].capacity
            /\ heap[a].capacity <= kMaxChildren

-----------------------------------------------------------------------------
(* The child of node n for bit b, the i-th set bit of the bitmap: the      *)
(* pointer in slot i.                                                      *)
ChildAt(n, b) == n.children[childIndexForBitNumber(n, b)]

(* The leaves below the node at `this`.                                    *)
RECURSIVE LeavesBelow(_, _)
LeavesBelow(h, this) ==
    UNION {IF isLeaf(h[ChildAt(h[this], b)])
           THEN {ChildAt(h[this], b)}
           ELSE LeavesBelow(h, ChildAt(h[this], b)) : b \in h[this].bitmap}

(* Below the node at `this`, which is `level` nodes below the root, every  *)
(* leaf reached through the slot of bit b at a node j levels below the     *)
(* root has b as the j-th slice of its hash.                               *)
RECURSIVE OnHashPath(_, _, _)
OnHashPath(h, this, level) ==
    \A b \in h[this].bitmap :
        LET child == ChildAt(h[this], b) IN
        IF isLeaf(h[child])
        THEN childBitNumber(h[child].hash, level * kBitShift) = b
        ELSE /\ \A l \in LeavesBelow(h, child) :
                   childBitNumber(h[l].hash, level * kBitShift) = b
             /\ OnHashPath(h, child, level + 1)

(* C15: in every trie reached by inserts and removes, the slots on the     *)
(* path from the root to a leaf are the slices of the leaf's own hash,     *)
(* level by level; and every leaf of the heap is on such a path.           *)
C15_LeavesOnHashPath ==
    (status = "ok" /\ root # Null) =>
        /\ OnHashPath(heap, root, 0)
        /\ LeavesBelow(heap, root) = LeafCells(heap)

(* ka was pushed down eleven times when kd split its slot, kc shares only  *)
(* the root slot with them, and kb has a slot of the root to itself.       *)
C15_Witness ==
    /\ status = "ok"
    /\ LeafDepth("ka") = 12 /\ LeafDepth("kd") = 12
    /\ LeafDepth("kc") = 2
    /\ LeafDepth("kb") = 1
    /\ OnHashPath(heap, root, 0)

-----------------------------------------------------------------------------
(* The interior nodes below the node at `this`.                            *)
RECURSIVE InteriorBelow(_, _)
InteriorBelow(h, this) ==
    UNION {IF isLeaf(h[ChildAt(h[this], b)])
           THEN {}
           ELSE {ChildAt(h[this], b)} \cup InteriorBelow(h, ChildAt(h[this], b)) :
           b \in h[this].bitmap}

(* C16: after every completed insert or remove, every interior node other  *)
(* than the root has a child, and every interior node of the heap is the   *)
(* root or below it: a node that lost its last child has been taken out of *)
(* its parent and freed, and so has every ancestor this emptied, up to the *)
(* root, which stays.                                                      *)
C16_NoEmptyNodeBelowRoot ==
    (status = "ok" /\ root # Null) =>
        /\ \A a \in InteriorCells(heap) \ {root} : ~empty(heap[a])
        /\ InteriorCells(heap) = {root} \cup InteriorBelow(heap, root)
        /\ \A k \in KeysIn(heap) :
              LET r == MHashTree_remove(heap, root, k) IN
              \A a \in InteriorCells(heap) \ {root} :
                  a \in r.c.freed <=> LeavesBelow(heap, a) = {LeafOf(heap, k)}

(* kd is the only key left below the chain of eleven interior nodes that   *)
(* was made for ka and kd: remove(kd) frees its leaf and those nodes, and  *)
(* leaves the root and the leaf of kb.                                     *)
C16_Witness ==
    /\ status = "ok"
    /\ KeysIn(heap) = {"kb", "kd"}
    /\ LeafDepth("kd") = 12
    /\ LET r == MHashTree_remove(heap, root, "kd") IN
          /\ r.ret
          /\ Cardinality(r.c.freed) = 12
          /\ InteriorCells(r.c.heap) = {root}
          /\ KeysIn(r.c.heap) = {"kb"}

-----------------------------------------------------------------------------
(* The number of levels of interior nodes at and below the node at `this`: *)
(* the interior nodes on the longest path from it to a leaf.               *)
RECURSIVE Levels(_, _)
Levels(h, this) ==
    LET n    == h[this]
        subs == {n.children[i] : i \in 0 .. childCount(n) - 1}
        deep == {Levels(h, a) : a \in {b \in subs : ~isLeaf(h[b])}}
    IN  1 + (IF deep = {} THEN 0 ELSE CHOOSE d \in deep : \A e \in deep : e <= d)

(* The shifts at which insert can run: the multiples of kBitShift that its *)
(* assertion lets through.                                                 *)
UsableShifts == {i * kBitShift : i \in UsableSlices}

(* The statement as it was made: no more than floor((W-5)/5) levels.       *)
C17_FloorLevels ==
    (status = "ok" /\ root # Null) =>
        Levels(heap, root) <= (HashBits - kBitShift) \div kBitShift

(* C17: for a hash of W bits, a trie that was reached by inserts that      *)
(* completed normally has at most ceil((W-5)/5) levels of interior nodes,  *)
(* the root counted as one: one level for each shift that insert's         *)
(* assertion lets through, which are 12 for the 64-bit hash.               *)
C17_MaxLevels ==
    (status = "ok" /\ root # Null) =>
        /\ Levels(heap, root) <= (HashBits - kBitShift + kBitShift - 1) \div kBitShift
        /\ Levels(heap, root) <= Cardinality(UsableShifts)

(* ka and kd, whose hashes differ in bits 55..59 only, are stored: the     *)
(* path to them has 12 interior nodes.                                     *)
C17_Witness ==
    /\ status = "ok"
    /\ {"ka", "kd"} \subseteq KeysIn(heap)
    /\ Levels(heap, root) = 12
    /\ LeafDepth("ka") = 12

-----------------------------------------------------------------------------
(* The hashes of j and k are the same in every slice that insert reads.    *)
Indistinguishable(j, k) ==
    j # k /\ \A i \in UsableSlices : Hash(j)[i] = Hash(k)[i]

(* The entry of a stored key k is what it was: its leaf is the same cell,  *)
(* was not freed, and get(k) finds it.                                     *)
EntryKept(c, rt, k) ==
    /\ LeafOf(heap, k) \in DOMAIN c.heap
    /\ LeafOf(heap, k) \notin c.freed
    /\ c.heap[LeafOf(heap, k)] = heap[LeafOf(heap, k)]
    /\ findNearest(c.heap, rt, Hash(k)) = LeafOf(heap, k)
    /\ MHashTree_get(c.heap, rt, k) = heap[LeafOf(heap, k)].val

C18_InsertAborts ==
    status = "ok" =>
        \A k \in KeysIn(heap) : \A j \in Keys : \A v \in Values :
            Indistinguishable(j, k) =>
                \E r \in {MHashTree_insert(heap, root, j, v, 0)} :
                    /\ r.c.st = "assert"
                    /\ StatusAfter(r.c) = "aborted"
                    /\ r.root = root
                    /\ \A x \in KeysIn(heap) : EntryKept(r.c, r.root, x)
                    /\ MHashTree_get(r.c.heap, r.root, j) = DefaultVal

C18_AbortedKeepsEntries ==
    status = "aborted" =>
        /\ \A k \in DOMAIN model : MHashTree_get(heap, root, k) = model[k]
        /\ \E k \in DOMAIN model : \E j \in Keys \ DOMAIN model :
               Indistinguishable(j, k)

(* C18: an insert of a key whose hash agrees, on every slice that insert   *)
(* reads, with the hash of a different key that is stored does not         *)
(* complete: the descent reaches the assertion shift + 5 < 64 and the call *)
(* aborts there.  The leaf of every stored key is then the cell it was,    *)
(* with its value, and get still finds it; the new key is not found.  A    *)
(* state is aborted only by such an insert.                                *)
C18_CollisionAborts == C18_InsertAborts /\ C18_AbortedKeepsEntries

(* An insert of kf or kg, whose hashes are the hash of the stored ka in    *)
(* bits 0..59, has aborted with the trie split down past the last shift,   *)
(* and get(ka) returns ka's value; kb is stored too.                       *)
C18_Witness ==
    /\ status = "aborted"
    /\ DOMAIN model = {"ka", "kb"}
    /\ Levels(heap, root) > Cardinality(UsableShifts)
    /\ MHashTree_get(heap, root, "ka") = model["ka"]
    /\ MHashTree_get(heap, root, "kg") = DefaultVal
    /\ MHashTree_get(heap, root, "kf") = DefaultVal

-----------------------------------------------------------------------------
(* The interior node that is the d-th on the path of a hash from the node  *)
(* at `this` (d = 1: that node itself), or Null if the path has fewer.     *)
RECURSIVE NodeAt(_, _, _, _)
NodeAt(h, this, hash, d) ==
    IF d = 1 THEN this
    ELSE LET n     == h[this]
             bitNo == childBitNumber(hash, 0)
         IN  IF ~hasChild(n, bitNo) THEN Null
             ELSE LET child == n.children[childIndexForBitNumber(n, bitNo)] IN
                  IF isLeaf(h[child]) THEN Null
                  ELSE NodeAt(h, child, ShiftHash(hash), d - 1)

(* The interior nodes on the path of a hash from the node at `this`, that  *)
(* node first.                                                             *)
RECURSIVE Path(_, _, _)
Path(h, this, hash) ==
    LET n     == h[this]
        bitNo == childBitNumber(hash, 0)
    IN  IF ~hasChild(n, bitNo) THEN <<this>>
        ELSE LET child == n.children[childIndexForBitNumber(n, bitNo)] IN
             IF isLeaf(h[child]) THEN <<this>>
             ELSE <<this>> \o Path(h, child, ShiftHash(hash))

(* The d-th node of a path, or Null if the path is shorter.                *)
Nth(path, d) == IF d <= Len(path) THEN path[d] ELSE Null

(* Every slot in use holds the address of a cell.                          *)
NoDanglingChild(h) ==
    \A a \in InteriorCells(h) : \A i \in 0 .. childCount(h[a]) - 1 :
        h[a].children[i] \in DOMAIN h

(* Node b is node a grown by one slot, with the child for bitNo added: the *)
(* same bits and the same children in the same order, around the new one.  *)
GrownCopy(old, new, bitNo) ==
    LET at == childIndexForBitNumber(old, bitNo) IN
    /\ new.capacity = old.capacity + 1
    /\ new.bitmap = old.bitmap \cup {bitNo}
    /\ \A i \in 0 .. childCount(old) - 1 :
          new.children[IF i < at THEN i ELSE i + 1] = old.children[i]

(* insert(j, v) of a key that is not stored: the node the leaf goes to is  *)
(* replaced by a grown copy if it was full, and no other node changes its  *)
(* capacity or its address.                                                *)
C19_InsertGrows ==
    (status = "ok" /\ root # Null) =>
        \A j \in Keys \ KeysIn(heap) : \A v \in Values :
            \E r \in {MHashTree_insert(heap, root, j, v, 0)} :
            r.c.st = "ok" =>
                LET full == Replaced(heap, root, j) IN
                /\ NoDanglingChild(r.c.heap)
                /\ \A x \in Keys :
                     LET pa == Path(heap, root, Hash(x))
                         pb == Path(r.c.heap, r.root, Hash(x))
                     IN  \A d \in 1 .. Len(pa) :
                           LET a     == pa[d]
                               b     == Nth(pb, d)
                               bitNo == childBitNumber(Hash(j), (d - 1) * kBitShift)
                           IN  IF a \in full
                               THEN /\ a \in r.c.freed /\ a \notin DOMAIN r.c.heap
                                    /\ b \in r.c.allocd
                                    /\ GrownCopy(heap[a], r.c.heap[b], bitNo)
                                    /\ r.c.heap[b].children[
                                           childIndexForBitNumber(heap[a], bitNo)]
                                         = LeafOf(r.c.heap, j)
                               ELSE /\ b = a
                                    /\ r.c.heap[b].capacity = heap[a].capacity

(* remove(k) changes no capacity: a node is where it was with the capacity *)
(* it had, or it was freed.                                                *)
C19_RemoveKeepsCapacity ==
    (status = "ok" /\ root # Null) =>
        \A k \in Keys :
            \E r \in {MHashTree_remove(heap, root, k)} :
                \A x \in Keys :
                    LET pa == Path(heap, root, Hash(x))
                        pb == Path(r.c.heap, root, Hash(x))
                    IN  \A d \in 1 .. Len(pa) :
                          IF pa[d] \in r.c.freed THEN Nth(pb, d) = Null
                          ELSE /\ Nth(pb, d) = pa[d]
                               /\ r.c.heap[pa[d]].capacity = heap[pa[d]].capacity

(* C19: an interior node's capacity changes only by growth.  An insert     *)
(* that adds a leaf to a node whose slots are all taken replaces the node  *)
(* by a copy with one more slot, the same bits and the same children in    *)
(* the same order around the new leaf; the slot of its parent holds the    *)
(* copy and the old node is freed.  Every other node, after an insert or a *)
(* remove, is the same cell with the same capacity, unless remove freed it. *)
C19_CapacityOnlyGrows == C19_InsertGrows /\ C19_RemoveKeepsCapacity

(* ka and kd fill the two-slot node at the last level, and ke has its slot *)
(* free: insert(ke) puts a three-slot copy with ka, kd and ke in the place *)
(* of that node, under the same parent.                                    *)
C19_Witness ==
    /\ status = "ok"
    /\ KeysIn(heap) = {"ka", "kc", "kd"}
    /\ Replaced(heap, root, "ke") = {NodeAt(heap, root, Hash("ke"), 12)}
    /\ heap[NodeAt(heap, root, Hash("ke"), 12)].capacity = 2
    /\ LET r == MHashTree_insert(heap, root, "ke", 1, 0) IN
          /\ r.c.heap[NodeAt(r.c.heap, root, Hash("ke"), 12)].capacity = 3
          /\ NodeAt(r.c.heap, root, Hash("ke"), 11) = NodeAt(heap, root, Hash("ke"), 11)
          /\ KeysIn(r.c.heap) = {"ka", "kc", "kd", "ke"}

-----------------------------------------------------------------------------
(* The capacity the d-th node of a path (the root is the first) must have  *)
(* been made with by a split: its parent is d - 2 levels below the root.   *)
BirthCapacity(d) == IF d = 2 THEN 4 ELSE IF d \in {3, 4} THEN 3 ELSE 2

(* The interior nodes that insert(j, ..) made by splitting a leaf slot,    *)
(* given the result r of the call: the new interior cells on the path of   *)
(* j, when the descent ended at the leaf of another key.                   *)
SplitBorn(r, j) ==
    IF root = Null \/ Landing(heap, root, Hash(j)) # Null THEN {}
    ELSE {d \in 2 .. NumSlices :
              NodeAt(r.c.heap, r.root, Hash(j), d) \in r.c.allocd}

(* C20: a non-root interior node that an insert makes when it splits a     *)
(* leaf slot has 4 slots if it is a child of the root, 3 if its parent is  *)
(* one or two levels below the root, and 2 if its parent is deeper.  A     *)
(* split makes at least one such node, and every interior cell the call    *)
(* allocates is one of them.                                               *)
C20_BirthCapacity ==
    (status = "ok" /\ root # Null) =>
        \A j \in Keys \ KeysIn(heap) : \A v \in Values :
            \E r \in {MHashTree_insert(heap, root, j, v, 0)} :
                Landing(heap, root, Hash(j)) = Null =>
                    /\ SplitBorn(r, j) # {}
                    /\ \A d \in SplitBorn(r, j) :
                          r.c.heap[NodeAt(r.c.heap, r.root, Hash(j), d)].capacity
                              = BirthCapacity(d)
                    /\ {a \in r.c.allocd : ~isLeaf(r.c.heap[a])}
                          = {NodeAt(r.c.heap, r.root, Hash(j), d) : d \in SplitBorn(r, j)}

(* ka is a leaf under the root: insert(kd) makes eleven nodes below the    *)
(* root, the first with 4 slots, the next two with 3, the others with 2.   *)
C20_Witness ==
    /\ status = "ok"
    /\ KeysIn(heap) = {"ka", "kb"}
    /\ LET r == MHashTree_insert(heap, root, "kd", 1, 0) IN
          /\ SplitBorn(r, "kd") = 2 .. 12
          /\ r.c.heap[NodeAt(r.c.heap, root, Hash("kd"), 2)].capacity = 4
          /\ r.c.heap[NodeAt(r.c.heap, root, Hash("kd"), 3)].capacity = 3
          /\ r.c.heap[NodeAt(r.c.heap, root, Hash("kd"), 4)].capacity = 3
          /\ r.c.heap[NodeAt(r.c.heap, root, Hash("kd"), 5)].capacity = 2
          /\ r.c.heap[NodeAt(r.c.heap, root, Hash("kd"), 12)].capacity = 2

-----------------------------------------------------------------------------
(* A push onto a vector whose size is its capacity c returns with the      *)
(* capacity max(c + c/2, size + 1) and the element appended, or throws     *)
(* bad_alloc.                                                              *)
C21_PushGrows ==
    (vlast'.op = "push_back" /\ vecs[1].size = vecs[1].capacity)
    => /\ vlast'.out \in {"ok", "bad_alloc"}
       /\ vlast'.out = "ok" =>
             /\ vecs'[1].capacity =
                    Max(vecs[1].capacity + vecs[1].capacity \div 2, vecs[1].size + 1)
             /\ vecs'[1].size = vecs[1].size + 1
             /\ SubSeq(Contents(vecs'[1], bufs'), 1, vecs[1].size)
                    = Contents(vecs[1], bufs)

C21_PushKeepsCapacity ==
    (vlast'.op = "push_back" /\ vecs[1].size < vecs[1].capacity)
    => /\ vlast'.out = "ok"
       /\ vecs'[1].capacity = vecs[1].capacity
       /\ vecs'[1].big = vecs[1].big
       /\ vecs'[1].size = vecs[1].size + 1

C21_Reserve ==
    vlast'.op = "reserve" =>
        \A cap \in Requests(MaxCap), f \in BOOLEAN :
            Reserve(1, cap, f) =>
                IF vecs[1].capacity >= cap
                THEN vlast'.out = "ok" /\ vecs' = vecs /\ bufs' = bufs
                ELSE vlast'.out = "ok" =>
                        /\ vecs'[1].capacity >= cap
                        /\ vecs'[1].size = vecs[1].size
                        /\ Contents(vecs'[1], bufs') = Contents(vecs[1], bufs)

(* C21: the growth rule.  push_back or emplace_back on a vector whose size *)
(* equals its capacity c sets the capacity to max(c + floor(c/2),          *)
(* size + 1) and then appends (unless the allocation fails); a push on a   *)
(* vector with size < capacity leaves the capacity as it is; reserve(cap)  *)
(* changes nothing when capacity >= cap, and when it returns otherwise the *)
(* capacity is at least cap and the elements are the same.                 *)
C21_GrowthRule ==
    [][/\ C21_PushGrows
       /\ C21_PushKeepsCapacity
       /\ C21_Reserve]_vars

(* A push onto a full vector of 4 elements has made the capacity 6, which  *)
(* is 4 + 4/2 and more than size + 1.                                      *)
C21_Witness ==
    /\ vlast = [op |-> "push_back", out |-> "ok"]
    /\ vecs[1].size = 5
    /\ vecs[1].capacity = 6
    /\ vecs[1].big \in DOMAIN bufs
    /\ DOMAIN bufs[vecs[1].big] = 0 .. 5
    /\ Contents(vecs[1], bufs) = ref[1]

-----------------------------------------------------------------------------
(* The cells reachable from the root through the slots in use.             *)
Reachable(h, rt) ==
    IF rt = Null THEN {} ELSE {rt} \cup InteriorBelow(h, rt) \cup LeavesBelow(h, rt)

(* The slots in use that hold the address a: a node and a slot index.      *)
SlotsHolding(h, a) ==
    {<<p, i>> \in InteriorCells(h) \X (0 .. kMaxChildren - 1) :
        i < childCount(h[p]) /\ h[p].children[i] = a}

(* Every live cell is reachable from the root, every reachable cell is     *)
(* live, and every cell but the root is held by exactly one slot in use.   *)
ExclusivelyOwned(h, rt) ==
    /\ \A p \in InteriorCells(h) : \A i \in 0 .. childCount(h[p]) - 1 :
          h[p].children[i] \in DOMAIN h
    /\ Reachable(h, rt) = DOMAIN h
    /\ \A a \in DOMAIN h :
          Cardinality(SlotsHolding(h, a)) = IF a = rt THEN 0 ELSE 1

(* C22: after every insert or remove that completed, the live cells are    *)
(* the cells reachable from the root, and every cell other than the root   *)
(* is held by exactly one slot in use of one interior node: nothing is     *)
(* leaked, no slot in use holds a freed address, and no cell is shared.    *)
C22_OwnedAfterEveryCall ==
    [][(/\ \/ \E k \in Keys, v \in Values : Insert(k, v)
           \/ \E k \in Keys : Remove(k)
        /\ status' = "ok")
       => ExclusivelyOwned(heap', root')]_vars

-----------------------------------------------------------------------------
(* The storage of a live vector fits its capacity: size <= capacity, a     *)
(* heap buffer exactly when capacity > N, and that buffer has `capacity`   *)
(* slots.                                                                  *)
StorageFits(v, b) ==
    /\ v.size <= v.capacity
    /\ v.big # Null <=> v.capacity > N
    /\ v.big # Null => v.big \in DOMAIN b /\ DOMAIN b[v.big] = 0 .. v.capacity - 1
    /\ \A i \in 0 .. v.capacity - 1 : i \in DOMAIN Base(v, b)

(* C23: in every state every live vector, a moved-from one and the         *)
(* destination of a move assignment included, has size <= capacity and is  *)
(* heap-backed exactly when capacity > N, so every index below capacity is *)
(* a slot of the storage in use; and no push has written outside it.       *)
C23_StorageFitsCapacity ==
    /\ vstatus # "out_of_bounds"
    /\ \A o \in Objs : vecs[o].alive => StorageFits(vecs[o], bufs)

-----------------------------------------------------------------------------
(* Key j can be told from every stored key by a slice that insert reads.   *)
Distinguishable(j) == \A k \in KeysIn(heap) : ~Indistinguishable(j, k)

(* C24: over keys whose hashes pairwise differ in a slice that insert      *)
(* reads, no assertion of the trie fails and no child is moved past the    *)
(* end of a node.  In every state the calls have reached, insert of every  *)
(* key that differs so from the stored keys, and remove of every key, run  *)
(* to their end: grow() sees a capacity below 32, childForBitNumber and    *)
(* removeChild an index below the capacity, _addChild a free slot, and     *)
(* every node visited a shift with shift + 5 < 64.  A call has aborted     *)
(* only if its key could not be told from a stored one.                    *)
C24_NoAssertionFails ==
    /\ status \in {"ok", "aborted", "destroyed"}
    /\ status = "aborted" =>
          \E j \in Keys \ KeysIn(heap) : ~Distinguishable(j)
    /\ (status = "ok" /\ root # Null) =>
          /\ \A j \in Keys : \A v \in Values :
                Distinguishable(j) =>
                    MHashTree_insert(heap, root, j, v, 0).c.st = "ok"
          /\ \A k \in Keys : MHashTree_remove(heap, root, k).c.st = "ok"
          /\ \A a \in InteriorCells(heap) :
                /\ childCount(heap[a]) <= heap[a].capacity
                /\ heap[a].capacity <= kMaxChildren

(* Five keys that differ pairwise are stored, three of them in the node at *)
(* the last shift, which was grown to hold them; ke can be removed and     *)
(* inserted again.                                                         *)
C24_Witness ==
    /\ status = "ok"
    /\ KeysIn(heap) = {"ka", "kb", "kc", "kd", "ke"}
    /\ Levels(heap, root) = 12
    /\ heap[NodeAt(heap, root, Hash("ke"), 12)].capacity = 3
    /\ \E r \in {MHashTree_remove(heap, root, "ke")} :
          /\ r.ret /\ r.c.st = "ok"
          /\ MHashTree_insert(r.c.heap, root, "ke", 1, 0).c.st = "ok"

=============================================================================
